---- MODULE Spec2Model ----
(***************************************************************************)
(* Book repository (src/src/App.tsx): the reducer over the book            *)
(* collection, the useLocalStorage hook that loads and saves it under the  *)
(* key "books", and the App component that wires user events to both.      *)
(*                                                                         *)
(* JavaScript strings are sequences of one-character strings.  JavaScript  *)
(* positions are 0-based and are kept 0-based in every operator that takes *)
(* one; element i of a JavaScript array is element i+1 of the sequence.    *)
(***************************************************************************)
EXTENDS Integers, Sequences, FiniteSets, TLC

(* ------------------------------ bounds -------------------------------- *)

\* Longest collection the reducer is applied to in SpecReducer.
MaxColl == 3

\* Longest collection the App holds in Spec (Add is disabled beyond it).
MaxLen == 6

\* Number of localStorage.setItem calls that may throw in one behaviour.
MaxWriteFailures == 2

\* Longest collection the view and the store round trip are computed for in
\* SpecView and SpecStore.
MaxView == 12

\* Largest page number the view is computed for in SpecView.
MaxViewPage == 4

(* ------------------------------ values -------------------------------- *)

\* interface Book { title; author; year } -- three strings.
Book(title, author, year) == [title |-> title, author |-> author, year |-> year]

BookAb == Book(<<"A", "b">>, <<"x">>, <<"1">>)

BookB == Book(<<"b">>, <<"y">>, <<"2">>)

\* The records the form and the edit prompts can produce in this model.
Books == {BookAb, BookB}

\* A JavaScript value held by a hook: an array of books, null, a plain
\* object that is no array, or (as the outcome of a call) a thrown error.
Arr(elems) == [t |-> "array", elems |-> elems]

JsNull == [t |-> "null", elems |-> <<>>]

JsObject == [t |-> "object", elems |-> <<>>]

Thrown == [t |-> "throw", elems |-> <<>>]

\* A JavaScript scalar used as a position: a number, or something that is
\* not a number (the string "0", null, undefined).
Num(n) == [t |-> "number", n |-> n]

Str0 == [t |-> "string", n |-> 0]

Undef == [t |-> "undefined", n |-> 0]

\* index === x for a loop index (always a number) and any scalar x.
StrictEq(index, x) == x.t = "number" /\ x.n = index

(* ------------------------------ reducer ------------------------------- *)

\* An action { type, payload }.  payload is one of
\*   a book                      (pk = "book",   ADD_BOOK)
\*   a scalar                    (pk = "scalar", DELETE_BOOK)
\*   an object { index, book }   (pk = "object", EDIT_BOOK)
\*   null                        (pk = "null")
Action(type, pk, index, book) ==
    [type |-> type, pk |-> pk, index |-> index, book |-> book]

\* dispatch({ type: 'ADD_BOOK', payload: book })
AddAction(book) == Action("ADD_BOOK", "book", Undef, book)

\* dispatch({ type: 'DELETE_BOOK', payload: index })
DeleteAction(x) == Action("DELETE_BOOK", "scalar", x, BookAb)

\* dispatch({ type: 'EDIT_BOOK', payload: { index, book } })
EditAction(x, book) == Action("EDIT_BOOK", "object", x, book)

\* Variant of addBook that leaves out a record the collection already holds.
addBookUnique(state, book) ==
    IF \E i \in 1..Len(state) : state[i] = book THEN state ELSE Append(state, book)

\* [...state, action.payload]
addBook(state, book) == Append(state, book)

\* Variant of filterFrom that drops every record equal to the one at the
\* position, as a filter by value would.
RECURSIVE filterFromByValue(_, _, _)
filterFromByValue(state, index, payload) ==
    IF index >= Len(state) THEN <<>>
    ELSE (IF /\ payload.t = "number" /\ payload.n >= 0 /\ payload.n < Len(state)
             /\ state[index + 1] = state[payload.n + 1]
          THEN <<>> ELSE <<state[index + 1]>>)
         \o filterFromByValue(state, index + 1, payload)

\* Variant of filterFrom that counts a negative position from the end, as
\* splice(position, 1) would.
RECURSIVE filterFromWrap(_, _, _)
filterFromWrap(state, index, payload) ==
    IF index >= Len(state) THEN <<>>
    ELSE (IF /\ payload.t = "number"
             /\ index = (IF payload.n < 0 THEN Len(state) + payload.n ELSE payload.n)
          THEN <<>> ELSE <<state[index + 1]>>)
         \o filterFromWrap(state, index + 1, payload)

\* state.filter((_, index) => index !== action.payload), from position index on.
RECURSIVE filterFrom(_, _, _)
filterFrom(state, index, payload) ==
    IF index >= Len(state) THEN <<>>
    ELSE (IF ~StrictEq(index, payload) THEN <<state[index + 1]>> ELSE <<>>)
         \o filterFrom(state, index + 1, payload)

\* action.payload.index: the index member of an object payload; any other
\* payload that is not null has no such member (undefined).
PayloadIndex(action) == IF action.pk = "object" THEN action.index ELSE Undef

\* Variant of mapFrom that compares the 1-based position with the index.
RECURSIVE mapFromOneBased(_, _, _)
mapFromOneBased(state, index, action) ==
    IF index >= Len(state) THEN <<>>
    ELSE <<IF StrictEq(index + 1, PayloadIndex(action)) THEN action.book
           ELSE state[index + 1]>>
         \o mapFromOneBased(state, index + 1, action)

\* state.map((book, index) => index === payload.index ? payload.book : book),
\* from position index on.
RECURSIVE mapFrom(_, _, _)
mapFrom(state, index, action) ==
    IF index >= Len(state) THEN <<>>
    ELSE <<IF StrictEq(index, PayloadIndex(action)) THEN action.book ELSE state[index + 1]>>
         \o mapFrom(state, index + 1, action)

\* The scalar a DELETE_BOOK compares positions with: the payload itself.
DeletePayload(action) ==
    IF action.pk = "scalar" THEN action.index
    ELSE IF action.pk = "null" THEN [t |-> "null", n |-> 0]
    ELSE [t |-> "object", n |-> 0]

\* const reducer = (state, action) => ...: the new collection, or Thrown when
\* the map callback reads .index of a null payload (the callback runs once
\* per element, so an empty state maps to an empty array without reading it).
\* ADD_BOOK is only ever given a book as payload in this model.
reducer(state, action) ==
    CASE action.type = "ADD_BOOK" -> Arr(addBook(state, action.book))
      [] action.type = "DELETE_BOOK" -> Arr(filterFrom(state, 0, DeletePayload(action)))
      [] action.type = "EDIT_BOOK" ->
            IF action.pk = "null"
            THEN (IF Len(state) > 0 THEN Thrown ELSE Arr(<<>>))
            ELSE Arr(mapFrom(state, 0, action))
      [] OTHER -> Arr(state)

(* --------------------------- JSON and storage ------------------------- *)

\* A JSON text is a sequence of tokens: punctuation, the literal null, and
\* string literals.
P(c) == [k |-> "punct", v |-> <<c>>]

S(str) == [k |-> "string", v |-> str]

NullLit == [k |-> "literal", v |-> <<"n", "u", "l", "l">>]

TitleKey == S(<<"t", "i", "t", "l", "e">>)

AuthorKey == S(<<"a", "u", "t", "h", "o", "r">>)

YearKey == S(<<"y", "e", "a", "r">>)

\* JSON.stringify of one book: {"title":..,"author":..,"year":..}
StringifyBook(b) ==
    <<P("{"), TitleKey, P(":"), S(b.title), P(","),
      AuthorKey, P(":"), S(b.author), P(","),
      YearKey, P(":"), S(b.year), P("}")>>

\* Tokens of one stringified book.
BookTokens == Len(StringifyBook(BookAb))

\* The elements of an array, comma separated.
RECURSIVE StringifyElems(_)
StringifyElems(elems) ==
    IF elems = <<>> THEN <<>>
    ELSE IF Len(elems) = 1 THEN StringifyBook(elems[1])
    ELSE StringifyBook(elems[1]) \o <<P(",")>> \o StringifyElems(Tail(elems))

\* JSON.stringify(valueToStore)
Stringify(value) ==
    IF value.t = "array" THEN <<P("[")>> \o StringifyElems(value.elems) \o <<P("]")>>
    ELSE IF value.t = "null" THEN <<NullLit>>
    ELSE <<P("{"), P("}")>>

ParseFail == [ok |-> FALSE, elems |-> <<>>]

\* One object of an array: the three members, read by key.
ParseBook(toks) ==
    IF /\ Len(toks) = BookTokens
       /\ toks[1] = P("{") /\ toks[13] = P("}")
       /\ toks[3] = P(":") /\ toks[7] = P(":") /\ toks[11] = P(":")
       /\ toks[5] = P(",") /\ toks[9] = P(",")
       /\ toks[2] = TitleKey /\ toks[6] = AuthorKey /\ toks[10] = YearKey
       /\ toks[4].k = "string" /\ toks[8].k = "string" /\ toks[12].k = "string"
    THEN [ok |-> TRUE, elems |-> <<Book(toks[4].v, toks[8].v, toks[12].v)>>]
    ELSE ParseFail

RECURSIVE ParseElems(_)
ParseElems(toks) ==
    IF Len(toks) < BookTokens THEN ParseFail
    ELSE LET b == ParseBook(SubSeq(toks, 1, BookTokens)) IN
         IF ~b.ok THEN ParseFail
         ELSE IF Len(toks) = BookTokens THEN b
         ELSE IF toks[BookTokens + 1] # P(",") THEN ParseFail
         ELSE LET rest == ParseElems(SubSeq(toks, BookTokens + 2, Len(toks))) IN
              IF rest.ok THEN [ok |-> TRUE, elems |-> b.elems \o rest.elems]
              ELSE ParseFail

\* JSON.parse(item) for the texts of this model: null, {}, an array of book
\* objects as JSON.stringify writes them; anything else is a SyntaxError.
Parse(text) ==
    IF text = <<NullLit>> THEN JsNull
    ELSE IF text = <<P("{"), P("}")>> THEN JsObject
    ELSE IF Len(text) >= 2 /\ text[1] = P("[") /\ text[Len(text)] = P("]")
    THEN IF Len(text) = 2 THEN Arr(<<>>)
         ELSE LET r == ParseElems(SubSeq(text, 2, Len(text) - 1)) IN
              IF r.ok THEN Arr(r.elems) ELSE Thrown
    ELSE Thrown

\* What localStorage holds under the key: nothing (getItem returns null) or
\* a text.
Absent == [present |-> FALSE, text |-> <<>>]

Item(text) == [present |-> TRUE, text |-> text]

\* Variant of Load that never reads the store: useState(initialValue).
LoadIgnoresStore(item, initialValue) == initialValue

\* The useState initialiser of useLocalStorage:
\*   item ? JSON.parse(item) : initialValue, initialValue on a throw.
Load(item, initialValue) ==
    IF ~item.present \/ item.text = <<>> THEN initialValue
    ELSE LET v == Parse(item.text) IN
         IF v = Thrown THEN initialValue ELSE v

\* useLocalStorage<Book[]>('books', [])
InitialValue == Arr(<<>>)

(* -------------------------------- view -------------------------------- *)

\* const booksPerPage = 5
booksPerPage == 5

\* One character of String.prototype.toLowerCase over this model's alphabet.
LowerChar(c) == IF c = "A" THEN "a" ELSE IF c = "B" THEN "b" ELSE c

toLowerCase(str) == [i \in 1..Len(str) |-> LowerChar(str[i])]

\* String.prototype.includes: sub occurs in str at some offset.
includes(str, sub) ==
    \E k \in 0..(Len(str) - Len(sub)) : SubSeq(str, k + 1, k + Len(sub)) = sub

\* Variant of filteredBooks that compares without lower-casing:
\* book.title.includes(searchTerm).
RECURSIVE filteredBooksCaseSensitive(_, _)
filteredBooksCaseSensitive(books, term) ==
    IF books = <<>> THEN <<>>
    ELSE (IF includes(Head(books).title, term) THEN <<Head(books)>> ELSE <<>>)
         \o filteredBooksCaseSensitive(Tail(books), term)

\* state.filter(book => book.title.toLowerCase().includes(searchTerm.toLowerCase()))
RECURSIVE filteredBooks(_, _)
filteredBooks(books, term) ==
    IF books = <<>> THEN <<>>
    ELSE (IF includes(toLowerCase(Head(books).title), toLowerCase(term))
          THEN <<Head(books)>> ELSE <<>>)
         \o filteredBooks(Tail(books), term)

\* Array.prototype.slice(begin, end) for 0 <= begin <= end: both ends are
\* cut at the length.
slice(arr, begin, end) ==
    LET b == IF begin > Len(arr) THEN Len(arr) ELSE begin
        e == IF end > Len(arr) THEN Len(arr) ELSE end
    IN  SubSeq(arr, b + 1, e)

indexOfLastBook(page) == page * booksPerPage

\* Variant of indexOfFirstBook that starts one record late.
indexOfFirstBookOneBased(page) == indexOfLastBook(page) - booksPerPage + 1

\* indexOfLastBook - booksPerPage
indexOfFirstBook(page) == indexOfLastBook(page) - booksPerPage

\* filteredBooks.slice(indexOfFirstBook, indexOfLastBook)
currentBooks(books, term, page) ==
    slice(filteredBooks(books, term), indexOfFirstBook(page), indexOfLastBook(page))

\* Variant of totalPages that rounds down: Math.floor.
totalPagesFloor(books, term) == Len(filteredBooks(books, term)) \div booksPerPage

\* Math.ceil(filteredBooks.length / booksPerPage)
totalPages(books, term) ==
    (Len(filteredBooks(books, term)) + booksPerPage - 1) \div booksPerPage

(* ------------------------------ the App ------------------------------- *)

VARIABLES
    store,            \* localStorage under the key 'books'
    storedValue,      \* useLocalStorage's storedValue
    state,            \* useReducer's state
    sameRef,          \* storedValue and state are the same array object
    currentPage,      \* useState(1)
    searchTerm,       \* useState('')
    crashed,          \* a render has thrown: the component is unmounted
    effectPending,    \* a committed render's useEffect has not run yet
    saveCount,        \* setStoredBooks calls since the last event
    lastEvent,        \* the last event: mount, add, delete, edit, search, page
    lastSaved,        \* the value the last setStoredBooks call was given
    lastWriteFailed,  \* the last localStorage.setItem call threw
    failures,         \* localStorage.setItem calls that threw so far
    rState,           \* SpecReducer: the collection given to reducer
    rAction,          \* SpecReducer: the action given to reducer
    rResult,          \* SpecReducer: what reducer returned
    rDone             \* SpecReducer: reducer has been applied

VARIABLES
    vBooks,           \* SpecView, SpecStore: the collection
    vTerm,            \* SpecView: the search term
    vPage,            \* SpecView: the page number
    vFiltered,        \* SpecView: filteredBooks
    vVisible,         \* SpecView: currentBooks
    vTotal,           \* SpecView: the number of page buttons
    vPages,           \* SpecView: currentBooks of each numbered page
    vStore,           \* SpecStore: the store after the save
    vLoaded,          \* SpecStore: what a mount over vStore starts with
    vPhase            \* "input", then "viewed" or "loaded"

appVars == <<store, storedValue, state, sameRef, currentPage, searchTerm, crashed,
             effectPending, saveCount, lastEvent, lastSaved, lastWriteFailed, failures>>

redVars == <<rState, rAction, rResult, rDone>>

viewVars == <<vBooks, vTerm, vPage, vFiltered, vVisible, vTotal, vPages, vStore,
              vLoaded, vPhase>>

vars == <<appVars, redVars, viewVars>>

None == [t |-> "none", elems |-> <<>>]

\* Texts the search box is given: empty, and one that matches the title of
\* BookAb only after both are lower-cased.
SearchTerms == {<<>>, <<"A">>}

\* Unparseable text: "[" alone.
Garbage == <<P("[")>>

\* What the key can hold when the page is first opened.
InitialStores ==
    {Absent, Item(<<>>), Item(Garbage), Item(<<NullLit>>), Item(<<P("{"), P("}")>>),
     Item(Stringify(Arr(<<>>))), Item(Stringify(Arr(<<BookB, BookAb>>)))}

\* The body of App reads state.filter(...): a state that is no array throws.
RenderThrows(value) == value.t # "array"

\* First render of App over what the key holds: useLocalStorage's
\* initialiser, useReducer(reducer, storedBooks), useState(1), useState('').
Mount(item) ==
    LET loaded == Load(item, InitialValue) IN
    /\ storedValue' = loaded
    /\ state' = loaded
    /\ sameRef' = TRUE
    /\ currentPage' = 1
    /\ searchTerm' = <<>>
    /\ crashed' = RenderThrows(loaded)
    /\ effectPending' = ~RenderThrows(loaded)
    /\ saveCount' = 0
    /\ lastEvent' = "mount"
    /\ lastSaved' = None
    /\ lastWriteFailed' = FALSE

ReducerIdle ==
    /\ rState = <<>>
    /\ rAction = AddAction(BookAb)
    /\ rResult = None
    /\ rDone = FALSE

\* Nothing computed yet for the view and the store round trip.
ViewBlank ==
    /\ vFiltered = <<>>
    /\ vVisible = <<>>
    /\ vTotal = 0
    /\ vPages = <<>>
    /\ vStore = Absent
    /\ vLoaded = None
    /\ vPhase = "input"

ViewIdle ==
    /\ vBooks = <<>>
    /\ vTerm = <<>>
    /\ vPage = 1
    /\ ViewBlank

Init ==
    /\ store \in InitialStores
    /\ storedValue = Load(store, InitialValue)
    /\ state = storedValue
    /\ sameRef = TRUE
    /\ currentPage = 1
    /\ searchTerm = <<>>
    /\ crashed = RenderThrows(state)
    /\ effectPending = ~crashed
    /\ saveCount = 0
    /\ lastEvent = "mount"
    /\ lastSaved = None
    /\ lastWriteFailed = FALSE
    /\ failures = 0
    /\ ReducerIdle
    /\ ViewIdle

\* The page is reloaded: a new process mounts App over the same store.
Reload ==
    /\ Mount(store)
    /\ UNCHANGED <<store, failures, redVars, viewVars>>

\* Variant of Ready in which an event is handled while an effect is pending.
ReadyNoFlush == ~crashed

\* React runs a committed render's effects before it handles the next event.
Ready == ~crashed /\ ~effectPending

\* dispatch(action), the render that runs reducer, and its commit.  Each of
\* the three cases of reducer returns a new array, so the commit schedules
\* the effect.
dispatch(action, event) ==
    /\ state' = reducer(state.elems, action)
    /\ sameRef' = FALSE
    /\ crashed' = RenderThrows(state')
    /\ effectPending' = ~crashed'
    /\ saveCount' = 0
    /\ lastEvent' = event
    /\ UNCHANGED <<store, storedValue, currentPage, searchTerm, lastSaved,
                   lastWriteFailed, failures, redVars, viewVars>>

\* handleSubmit -> handleAddBook(newBook)
handleAddBook(book) ==
    /\ Ready
    /\ Len(state.elems) < MaxLen
    /\ dispatch(AddAction(book), "add")

\* The Delete button of row index of currentBooks.map((book, index) => ...)
handleDeleteBook(index) ==
    /\ Ready
    /\ index \in 0..(Len(currentBooks(state.elems, searchTerm, currentPage)) - 1)
    /\ dispatch(DeleteAction(Num(index)), "delete")

\* The Edit button of row index, the three prompts answered with book.
handleEditBook(index, book) ==
    /\ Ready
    /\ index \in 0..(Len(currentBooks(state.elems, searchTerm, currentPage)) - 1)
    /\ dispatch(EditAction(Num(index), book), "edit")

\* Variant of handleSearch that also goes back to the first page.
handleSearchResetsPage(term) ==
    /\ Ready
    /\ term # searchTerm
    /\ searchTerm' = term
    /\ currentPage' = 1
    /\ effectPending' = TRUE
    /\ saveCount' = 0
    /\ lastEvent' = "search"
    /\ UNCHANGED <<store, storedValue, state, sameRef, crashed,
                   lastSaved, lastWriteFailed, failures, redVars, viewVars>>

\* onChange of the search box: setSearchTerm(term), re-render, commit.
handleSearch(term) ==
    /\ Ready
    /\ term # searchTerm
    /\ searchTerm' = term
    /\ effectPending' = TRUE
    /\ saveCount' = 0
    /\ lastEvent' = "search"
    /\ UNCHANGED <<store, storedValue, state, sameRef, currentPage, crashed,
                   lastSaved, lastWriteFailed, failures, redVars, viewVars>>

\* setCurrentPage(pageNumber): a re-render and commit when the page changes,
\* nothing when it is the page already shown.
paginate(pageNumber) ==
    /\ currentPage' = pageNumber
    /\ effectPending' = (pageNumber # currentPage)
    /\ saveCount' = 0
    /\ lastEvent' = "page"
    /\ UNCHANGED <<store, storedValue, state, sameRef, searchTerm, crashed,
                   lastSaved, lastWriteFailed, failures, redVars, viewVars>>

\* Variant of ClickPrevious that is never disabled and always goes one back.
ClickPreviousNoFloor ==
    /\ Ready
    /\ paginate(currentPage - 1)

\* The Previous button (disabled on page 1).
ClickPrevious ==
    /\ Ready
    /\ currentPage # 1
    /\ paginate(IF currentPage > 1 THEN currentPage - 1 ELSE currentPage)

\* One of the numbered page buttons 1..Math.ceil(filteredBooks.length / 5).
ClickPageNumber(number) ==
    /\ Ready
    /\ number \in 1..totalPages(state.elems, searchTerm)
    /\ paginate(number)

\* The Next button (disabled on the last page).
ClickNext ==
    /\ Ready
    /\ currentPage # totalPages(state.elems, searchTerm)
    /\ paginate(IF currentPage < totalPages(state.elems, searchTerm)
                THEN currentPage + 1 ELSE currentPage)

\* Variant of setItem that removes the old content before it writes.
setItemRemoveFirst(old, text, throws) == IF throws THEN Absent ELSE Item(text)

\* What setItem leaves in the store: the new text, or the old content when it
\* throws.
setItem(old, text, throws) == IF throws THEN old ELSE Item(text)

\* Variant of EffectValue: the hook's own value, setStoredBooks(storedBooks).
EffectValueStale == storedValue

\* The value the effect hands to setStoredBooks.
EffectValue == state

\* useEffect(() => setStoredBooks(state), [state, setStoredBooks]) with
\* setValue(value): setStoredValue(value), then setItem(key, JSON.stringify(value))
\* inside try/catch.  setValue is a new function on every render, so every
\* commit schedules the effect; setStoredValue with a new array re-renders
\* and commits again, with the array it already holds it does nothing.
setValue(throws) ==
    /\ ~crashed
    /\ effectPending
    /\ throws => failures < MaxWriteFailures
    /\ storedValue' = EffectValue
    /\ sameRef' = TRUE
    /\ store' = setItem(store, Stringify(EffectValue), throws)
    /\ effectPending' = ~sameRef
    /\ saveCount' = saveCount + 1
    /\ lastSaved' = EffectValue
    /\ lastWriteFailed' = throws
    /\ failures' = IF throws THEN failures + 1 ELSE failures
    /\ UNCHANGED <<state, currentPage, searchTerm, crashed, lastEvent, redVars, viewVars>>

Next ==
    \/ \E book \in Books : handleAddBook(book)
    \/ \E index \in 0..(booksPerPage - 1) : handleDeleteBook(index)
    \/ \E index \in 0..(booksPerPage - 1), book \in Books : handleEditBook(index, book)
    \/ \E term \in SearchTerms : handleSearch(term)
    \/ ClickPrevious
    \/ \E number \in 1..MaxLen : ClickPageNumber(number)
    \/ ClickNext
    \/ \E throws \in BOOLEAN : setValue(throws)
    \/ Reload

Spec == Init /\ [][Next]_vars

(* ------------------------ the reducer on its own ----------------------- *)

\* Collections of at most n books.
Collections(n) == UNION {[1..k -> Books] : k \in 0..n}

\* Positions given to DELETE_BOOK and EDIT_BOOK: numbers inside and outside
\* the bounds, and values that are no numbers.
Positions == {Num(p) : p \in (-1)..(MaxColl + 1)} \cup {Str0}

\* Actions given to reducer: the three kinds with well-formed payloads,
\* DELETE_BOOK and EDIT_BOOK with a null payload, and a type reducer does not
\* know.
Actions ==
    {AddAction(b) : b \in Books}
    \cup {DeleteAction(x) : x \in Positions}
    \cup {EditAction(x, b) : x \in Positions, b \in Books}
    \cup {Action("DELETE_BOOK", "null", Undef, BookAb),
          Action("EDIT_BOOK", "null", Undef, BookAb),
          Action("CLEAR_BOOKS", "null", Undef, BookAb)}

AppIdle ==
    /\ store = Absent
    /\ storedValue = InitialValue
    /\ state = InitialValue
    /\ sameRef = TRUE
    /\ currentPage = 1
    /\ searchTerm = <<>>
    /\ crashed = FALSE
    /\ effectPending = FALSE
    /\ saveCount = 0
    /\ lastEvent = "mount"
    /\ lastSaved = None
    /\ lastWriteFailed = FALSE
    /\ failures = 0

InitReducer ==
    /\ rState \in Collections(MaxColl)
    /\ rAction \in Actions
    /\ rResult = None
    /\ rDone = FALSE
    /\ AppIdle
    /\ ViewIdle

\* reducer(rState, rAction)
Reduce ==
    /\ ~rDone
    /\ rResult' = reducer(rState, rAction)
    /\ rDone' = TRUE
    /\ UNCHANGED <<rState, rAction, appVars, viewVars>>

NextReducer == Reduce

SpecReducer == InitReducer /\ [][NextReducer]_vars

(* ------------------ the view and the store on their own ---------------- *)

\* Search terms: empty, a capital letter both titles hold in lower case, two
\* letters in mixed case, and a letter that occurs in an author but in no
\* title.
ViewTerms == {<<>>, <<"B">>, <<"a", "B">>, <<"x">>}

InitView ==
    /\ vBooks \in Collections(MaxView)
    /\ vTerm \in ViewTerms
    /\ vPage \in 1..MaxViewPage
    /\ ViewBlank
    /\ AppIdle
    /\ ReducerIdle

\* One render of App over (state, searchTerm, currentPage): filteredBooks,
\* currentBooks, and the numbered page buttons with the page each one shows.
getView ==
    /\ vPhase = "input"
    /\ vFiltered' = filteredBooks(vBooks, vTerm)
    /\ vVisible' = currentBooks(vBooks, vTerm, vPage)
    /\ vTotal' = totalPages(vBooks, vTerm)
    /\ vPages' = [number \in 1..totalPages(vBooks, vTerm) |->
                      currentBooks(vBooks, vTerm, number)]
    /\ vPhase' = "viewed"
    /\ UNCHANGED <<vBooks, vTerm, vPage, vStore, vLoaded, appVars, redVars>>

NextView == getView

SpecView == InitView /\ [][NextView]_vars

InitStore ==
    /\ vBooks \in Collections(MaxView)
    /\ vTerm = <<>>
    /\ vPage = 1
    /\ ViewBlank
    /\ AppIdle
    /\ ReducerIdle

\* setValue(vBooks) on an empty store, then the initialiser of a new mount.
SaveLoad ==
    /\ vPhase = "input"
    /\ vStore' = setItem(Absent, Stringify(Arr(vBooks)), FALSE)
    /\ vLoaded' = Load(vStore', InitialValue)
    /\ vPhase' = "loaded"
    /\ UNCHANGED <<vBooks, vTerm, vPage, vFiltered, vVisible, vTotal, vPages,
                   appVars, redVars>>

NextStore == SaveLoad

SpecStore == InitStore /\ [][NextStore]_vars

(* ------------------------ claims on the reducer ------------------------ *)

\* x is a number inside the bounds of collection c.
InBounds(x, c) == x.t = "number" /\ x.n >= 0 /\ x.n < Len(c)

\* x is a number outside the bounds of collection c.
OutOfBounds(x, c) == x.t = "number" /\ (x.n < 0 \/ x.n >= Len(c))

\* c without the element at 0-based position p.
RemoveAt(c, p) == SubSeq(c, 1, p) \o SubSeq(c, p + 2, Len(c))

DeleteDone == rDone /\ rAction.type = "DELETE_BOOK" /\ rAction.pk = "scalar"

EditDone == rDone /\ rAction.type = "EDIT_BOOK" /\ rAction.pk = "object"

AddDone == rDone /\ rAction.type = "ADD_BOOK" /\ rAction.pk = "book"

\* C1: DELETE_BOOK at an in-bounds position p returns a collection one
\* shorter, equal to the input with exactly the element at p removed and the
\* others in their order (equal records at other positions are kept).
C1_DeleteEffect ==
    (DeleteDone /\ InBounds(rAction.index, rState)) =>
        /\ rResult.t = "array"
        /\ Len(rResult.elems) = Len(rState) - 1
        /\ rResult.elems = RemoveAt(rState, rAction.index.n)

\* A delete of the middle one of three records whose first equals it.
C1_Witness ==
    /\ DeleteDone
    /\ Len(rState) = 3
    /\ rAction.index = Num(1)
    /\ rState[1] = rState[2]
    /\ rState[3] # rState[2]
    /\ rResult = Arr(<<rState[1], rState[3]>>)

\* C2: ADD_BOOK returns a collection one longer whose last element is the
\* record and whose first elements are the input in order, also when the
\* record equals one already there.
C2_AddIdentity ==
    AddDone =>
        /\ rResult.t = "array"
        /\ Len(rResult.elems) = Len(rState) + 1
        /\ rResult.elems[Len(rResult.elems)] = rAction.book
        /\ SubSeq(rResult.elems, 1, Len(rState)) = rState

\* An add of a record the collection already holds.
C2_Witness ==
    /\ AddDone
    /\ Len(rState) = 2
    /\ rState[1] = rAction.book
    /\ rState[2] # rAction.book
    /\ rResult = Arr(<<rState[1], rState[2], rAction.book>>)

\* C3: EDIT_BOOK at an in-bounds position p returns a collection of the same
\* length with the record at p and the input's elements everywhere else.
C3_EditEffect ==
    (EditDone /\ InBounds(rAction.index, rState)) =>
        /\ rResult.t = "array"
        /\ Len(rResult.elems) = Len(rState)
        /\ \A i \in 0..(Len(rState) - 1) :
              rResult.elems[i + 1] =
                  IF i = rAction.index.n THEN rAction.book ELSE rState[i + 1]

\* An edit of the first of two equal records to another record.
C3_Witness ==
    /\ EditDone
    /\ Len(rState) = 2
    /\ rAction.index = Num(0)
    /\ rState[1] = rState[2]
    /\ rAction.book # rState[1]
    /\ rResult = Arr(<<rAction.book, rState[2]>>)

\* C4: DELETE_BOOK and EDIT_BOOK at a position outside [0, len) return a
\* collection equal to the input element for element, and do not throw.
C4_OutOfBoundsNoOp ==
    ((DeleteDone \/ EditDone) /\ OutOfBounds(rAction.index, rState)) =>
        rResult = Arr(rState)

\* A delete at position -1 of a collection of two.
C4_Witness ==
    /\ DeleteDone
    /\ rAction.index = Num(-1)
    /\ Len(rState) = 2
    /\ rResult = Arr(rState)

\* C5: reducer returns a collection for every collection and action, also
\* for a DELETE_BOOK or EDIT_BOOK with a malformed payload, and returns the
\* input for a type it does not know.
C5_ReducerTotal ==
    rDone =>
        /\ rResult.t = "array"
        /\ rAction.type \notin {"ADD_BOOK", "DELETE_BOOK", "EDIT_BOOK"} =>
              rResult = Arr(rState)

(* -------------------------- claims on the App -------------------------- *)

DispatchEvents == {"add", "delete", "edit"}

\* The step is a call of setStoredBooks.
SaveStep == saveCount' = saveCount + 1

\* The step handles a dispatch of the event kind.
DispatchStep(event) == saveCount' = 0 /\ lastEvent' = event /\ event \in DispatchEvents

\* The item is the text of an array of books.
ValidArrayText(item) ==
    item.present /\ item.text # <<>> /\ Parse(item.text).t = "array"

\* C6: once the pending effect has run and its write did not fail, the text
\* under the key decodes to exactly the collection in memory, so mounting
\* again over the store gives the same collection in the same order.
C6_StoreMatchesState ==
    (~crashed /\ ~effectPending /\ ~lastWriteFailed) =>
        /\ store.present
        /\ Load(store, InitialValue) = state

\* Settled after a delete that followed a failed write, three records left.
C6_Witness ==
    /\ Ready
    /\ ~lastWriteFailed
    /\ failures > 0
    /\ lastEvent = "delete"
    /\ saveCount > 0
    /\ state = Arr(<<BookB, BookAb, BookAb>>)
    /\ store = Item(Stringify(state))

\* C7: once the effects of an event have run, setStoredBooks has been called
\* exactly once if the event produced a new collection (add, delete, edit)
\* and not at all otherwise (search term, page, initial mount).
C7_OneSavePerChange ==
    Ready => saveCount = (IF lastEvent \in DispatchEvents THEN 1 ELSE 0)

\* C8: every save carries the collection the reducer produced last, and the
\* collection an action is applied to has been handed to a save before the
\* action is processed: saves follow the order of the collections.
C8_CausalOrder ==
    [][/\ SaveStep =>
            /\ lastSaved' = state
            /\ state' = state
            /\ ~lastWriteFailed' => store' = Item(Stringify(state))
       /\ (\E event \in DispatchEvents : DispatchStep(event)) => lastSaved = state
      ]_vars

\* Two adds, each saved in turn.
C8_Witness ==
    /\ Ready
    /\ lastEvent = "add"
    /\ saveCount > 0
    /\ state = Arr(<<BookAb, BookB>>)
    /\ lastSaved = state
    /\ store = Item(Stringify(state))

\* C9: the value the hook starts with is a collection, and it is the empty
\* one whenever the key is absent or holds anything but the text of an array
\* of books.
C9_LoadYieldsCollection ==
    (lastEvent = "mount" /\ saveCount = 0) =>
        /\ storedValue.t = "array"
        /\ ~ValidArrayText(store) => storedValue = Arr(<<>>)

\* C10: a save whose write throws leaves the collection in memory and the
\* stored text as they were and does not take the component down, and an
\* add, a delete or an edit after it is applied to the collection in memory:
\* the add appends one record, the delete removes the record at one position,
\* the edit replaces the record at one position, and none touches the store.
C10_WriteFailureContained ==
    [][/\ (SaveStep /\ lastWriteFailed') =>
            /\ state' = state
            /\ storedValue' = state
            /\ store' = store
            /\ ~crashed'
       /\ (lastWriteFailed /\ DispatchStep("add")) =>
            /\ state'.t = "array"
            /\ Len(state'.elems) = Len(state.elems) + 1
            /\ SubSeq(state'.elems, 1, Len(state.elems)) = state.elems
            /\ state'.elems[Len(state'.elems)] \in Books
            /\ store' = store
            /\ ~crashed'
       /\ (lastWriteFailed /\ DispatchStep("delete")) =>
            /\ state'.t = "array"
            /\ Len(state'.elems) = Len(state.elems) - 1
            /\ \E p \in 0..(Len(state.elems) - 1) :
                  state'.elems = RemoveAt(state.elems, p)
            /\ store' = store
            /\ ~crashed'
       /\ (lastWriteFailed /\ DispatchStep("edit")) =>
            /\ state'.t = "array"
            /\ Len(state'.elems) = Len(state.elems)
            /\ \E p \in 1..Len(state.elems), book \in Books :
                  state'.elems = [state.elems EXCEPT ![p] = book]
            /\ store' = store
            /\ ~crashed'
      ]_vars

\* An add of one record whose two writes both failed (the store still holds
\* the empty collection, the hook holds the record), then an edit of that
\* record, applied in memory.
C10_Witness ==
    /\ lastWriteFailed
    /\ lastEvent = "edit"
    /\ saveCount = 0
    /\ ~crashed
    /\ state = Arr(<<BookAb>>)
    /\ storedValue = Arr(<<BookB>>)
    /\ store = Item(Stringify(Arr(<<>>)))

(* ------------------ claims on the store and the view ------------------- *)

\* C11: saving a collection under the key and loading the key again gives a
\* collection equal to it: same length, same order, same fields, also for
\* the empty collection and for collections with equal records.
C11_RoundTrip ==
    vPhase = "loaded" =>
        /\ vStore.present
        /\ vLoaded.t = "array"
        /\ Len(vLoaded.elems) = Len(vBooks)
        /\ \A i \in 1..Len(vBooks) :
              /\ vLoaded.elems[i].title = vBooks[i].title
              /\ vLoaded.elems[i].author = vBooks[i].author
              /\ vLoaded.elems[i].year = vBooks[i].year

\* A round trip of three records, the first and the last equal.
C11_Witness ==
    /\ vPhase = "loaded"
    /\ vBooks = <<BookAb, BookB, BookAb>>
    /\ vStore = Item(Stringify(Arr(vBooks)))
    /\ vLoaded = Arr(vBooks)

\* Lower case of one character, and "the lower-cased title contains the
\* lower-cased term", character by character.
LowerOf(c) == CASE c = "A" -> "a" [] c = "B" -> "b" [] OTHER -> c

TitleContains(book, term) ==
    \E k \in 0..(Len(book.title) - Len(term)) :
        \A j \in 1..Len(term) : LowerOf(book.title[k + j]) = LowerOf(term[j])

\* C12: the filtered sequence is the subsequence of the collection, in
\* collection order, of the records whose lower-cased title contains the
\* lower-cased term; the empty term gives the whole collection.
C12_FilterCorrect ==
    vPhase = "viewed" =>
        /\ vFiltered = SelectSeq(vBooks, LAMBDA book : TitleContains(book, vTerm))
        /\ vTerm = <<>> => vFiltered = vBooks

\* The term "aB" over two records titled "b" and two titled "Ab".
C12_Witness ==
    /\ vPhase = "viewed"
    /\ vTerm = <<"a", "B">>
    /\ vBooks = <<BookB, BookAb, BookB, BookAb>>
    /\ vFiltered = <<BookAb, BookAb>>

\* C13: for n filtered records and a page number >= 1, totalPages is
\* ceil(n/5) (0 for n = 0) and the visible records are the filtered ones at
\* positions [(page-1)*5, page*5) cut at n: 5 on a full page, n - 5*(totalPages-1)
\* on the last, none (and no error) on a page past the last.
C13_Pagination ==
    vPhase = "viewed" =>
        LET n == Len(vFiltered)
            first == (vPage - 1) * 5
        IN  /\ vPage >= 1
            /\ vTotal = (IF n = 0 THEN 0 ELSE ((n - 1) \div 5) + 1)
            /\ Len(vVisible) =
                  (IF first >= n THEN 0 ELSE IF first + 5 <= n THEN 5 ELSE n - first)
            /\ \A k \in 1..Len(vVisible) : vVisible[k] = vFiltered[first + k]
            /\ vPage < vTotal => Len(vVisible) = 5
            /\ vPage = vTotal => Len(vVisible) = n - 5 * (vTotal - 1)
            /\ vPage > vTotal => vVisible = <<>>

\* Twelve records, page 3 of 3: the last two.
C13_Witness ==
    /\ vPhase = "viewed"
    /\ vTerm = <<>>
    /\ Len(vBooks) = 12
    /\ vBooks[11] # vBooks[12]
    /\ vPage = 3
    /\ vTotal = 3
    /\ vVisible = <<vBooks[11], vBooks[12]>>

\* The pages one after the other.
RECURSIVE Concat(_)
Concat(pages) == IF pages = <<>> THEN <<>> ELSE Head(pages) \o Concat(Tail(pages))

\* C19: the pages 1..totalPages one after the other are exactly the filtered
\* sequence, every page but the last holds 5 records, and no page holds more
\* than 5 or none.
C19_PagesPartition ==
    vPhase = "viewed" =>
        /\ Len(vPages) = vTotal
        /\ Concat(vPages) = vFiltered
        /\ \A number \in 1..Len(vPages) :
              /\ Len(vPages[number]) >= 1
              /\ Len(vPages[number]) <= 5
              /\ number < Len(vPages) => Len(vPages[number]) = 5

\* Six of twelve records match: a full page and a page of one.
C19_Witness ==
    /\ vPhase = "viewed"
    /\ vTerm = <<"a", "B">>
    /\ Len(vBooks) = 12
    /\ Len(vFiltered) = 6
    /\ vTotal = 2
    /\ Len(vPages[1]) = 5
    /\ vPages[2] = <<BookAb>>
    /\ Concat(vPages) = vFiltered

(* --------------------- claims on the App's view state ------------------ *)

\* C14: a change of the search term leaves the page number and the
\* collection as they were (the page is not set back to 1), and a change of
\* the page leaves the search term and the collection as they were.
C14_PureSetters ==
    [][/\ (lastEvent' = "search" /\ searchTerm' # searchTerm) =>
            /\ currentPage' = currentPage
            /\ state' = state
            /\ storedValue' = storedValue
            /\ store' = store
       /\ (lastEvent' = "page" /\ currentPage' # currentPage) =>
            /\ searchTerm' = searchTerm
            /\ state' = state
            /\ storedValue' = storedValue
            /\ store' = store
      ]_vars

\* The term typed on page 2 of six records: still page 2.
C14_Witness ==
    /\ lastEvent = "search"
    /\ searchTerm = <<"A">>
    /\ currentPage = 2
    /\ Len(state.elems) = 6

\* C15: the page number is an integer >= 1 in every reachable state.
C15_PageAtLeastOne == currentPage \in Nat /\ currentPage >= 1

\* Back on page 1 of 2 after a page change has been rendered and saved.
C15_Witness ==
    /\ Ready
    /\ lastEvent = "page"
    /\ saveCount = 1
    /\ currentPage = 1
    /\ totalPages(state.elems, searchTerm) = 2

\* C16: after a save whose write threw, the next save is the first one after
\* a new dispatch: the collection is not written again before that, not on a
\* search-term or page change either.
C16_NoRetry ==
    [][(lastWriteFailed /\ SaveStep) => (lastEvent \in DispatchEvents /\ saveCount = 0)]_vars

\* The 0-based positions, from position index on, of the records of books
\* whose title matches the term.
RECURSIVE MatchPositions(_, _, _)
MatchPositions(books, term, index) ==
    IF index >= Len(books) THEN <<>>
    ELSE (IF TitleContains(books[index + 1], term) THEN <<index>> ELSE <<>>)
         \o MatchPositions(books, term, index + 1)

\* The position in the full collection of the record shown in a row of the
\* current page.
RowPosition(row) ==
    MatchPositions(state.elems, searchTerm, 0)[(currentPage - 1) * 5 + row + 1]

\* C17: Delete on a visible row removes the record at that row's position in
\* the full collection and no other, and Edit replaces that record and no
\* other.
C17_RowAddressing ==
    [][\A row \in 0..4 :
          /\ handleDeleteBook(row) =>
                state'.elems = RemoveAt(state.elems, RowPosition(row))
          /\ \A book \in Books :
                handleEditBook(row, book) =>
                    state'.elems = [state.elems EXCEPT ![RowPosition(row) + 1] = book]
      ]_vars

\* C18: the page number never exceeds max(1, totalPages) of the current
\* filtered collection.
C18_PageInRange ==
    ~crashed =>
        currentPage <= (IF totalPages(state.elems, searchTerm) > 1
                        THEN totalPages(state.elems, searchTerm) ELSE 1)

====
